---- MODULE Spec2Model ----
(***************************************************************************)
(* HackStone file integrity monitoring agent.                              *)
(*                                                                         *)
(* Two state machines are modelled:                                        *)
(*   - the monitor of src/fim_agent.py: directory scanner, change          *)
(*     detector, integrity-chained logger and the poll loop of             *)
(*     FIMMonitor.run (specification Spec);                                *)
(*   - the delivery client of src/fim_agent/hackstone_client.py: bounded   *)
(*     queue, producer, background sender and stop (specification          *)
(*     ClientSpec, and FairClientSpec with the sender's fairness).         *)
(***************************************************************************)
EXTENDS Integers, Sequences, FiniteSets, TLC

VARIABLES
    \* ---- environment of the monitor
    fs,             \* the watched directory: path -> [content, mtime]
    clock,          \* the wall clock read by _timestamp and getmtime
    baselineFile,   \* the persisted baseline: [exists, valid, data]
    logFile,        \* the JSONL event log: a sequence of lines
    \* ---- the monitor process (FIMMonitor + EventLogger)
    pc,             \* where the process is in FIMMonitor.run
    states,         \* FIMMonitor.states, the in-memory Store
    snapshot,       \* the local variable snapshot of run
    events,         \* the events of the cycle still to be logged
    last_chain_hash,\* EventLogger.last_chain_hash
    nextId,         \* source of fresh event ids (uuid4)
    \* ---- history of the monitor, read by the properties only
    hist,           \* record of facts about the current run and cycle
    \* ---- the delivery client (HackstoneClient)
    cfg,            \* [max_queue_size, batch_size] as configured
    queue,          \* HackstoneClient._queue
    stop_event,     \* HackstoneClient._stop_event
    thr,            \* per thread: position and locals inside the client code
    posts,          \* the POST requests issued so far, in order
    failBudget,     \* how many more POSTs the collector may fail
    nextPayload,    \* next payload the producer hands to enqueue
    chist,          \* history of the client, read by the properties only
    \* ---- the query server (src/server.py)
    http,           \* one GET: the request, the handler's limit, the response
    \* ---- the agent's entry point (src/fim_agent/main.py)
    boot            \* main(): the config file, how far main got, its report

monVars == <<fs, clock, baselineFile, logFile, pc, states, snapshot, events,
             last_chain_hash, nextId, hist>>
cliVars == <<cfg, queue, stop_event, thr, posts, failBudget, nextPayload, chist>>
vars == <<fs, clock, baselineFile, logFile, pc, states, snapshot, events,
          last_chain_hash, nextId, hist,
          cfg, queue, stop_event, thr, posts, failBudget, nextPayload, chist,
          http, boot>>
srvVars == <<http, boot>>

(***************************************************************************)
(* Bounds of the model.                                                    *)
(***************************************************************************)
MaxClock == 1        \* the clock advances at most this far
MaxLog == 3          \* at most this many lines are appended to the log
MaxRuns == 2         \* the monitor process is started at most this often
MaxFsOps == 2        \* at most this many changes are made to the directory

\* The watched directory holds at most these paths; "b" has a long name.
Paths == {"a", "b"}
Contents == {"hi", "bye"}
Mtimes == 0..MaxClock

\* Bytes that a record takes in the log besides its file_path, and the
\* bytes of the two paths once JSON-escaped.
RecordOverheadBytes == 450
ShortPathBytes == 6
LongPathBytes == 3900

PathBytes(path) == IF path = "b" THEN LongPathBytes ELSE ShortPathBytes

(***************************************************************************)
(* Helpers on sequences and functions.                                     *)
(***************************************************************************)
Range(s) == {s[i] : i \in DOMAIN s}

Perms(S) == {s \in [1..Cardinality(S) -> S] : Range(s) = S}

EmptyMap == [p \in {} |-> 0]

RECURSIVE SumBytes(_)
SumBytes(lines) ==
    IF lines = <<>> THEN 0 ELSE lines[1].nbytes + SumBytes(Tail(lines))

Max(a, b) == IF a >= b THEN a ELSE b
Min(a, b) == IF a <= b THEN a ELSE b

(***************************************************************************)
(* src/fim_agent.py: helpers.                                              *)
(***************************************************************************)
\* sha256(...).hexdigest(): an ideal digest, distinct inputs give distinct
\* digests, and no digest equals the sentinel "-" or the empty string.
sha256(bytes) == "sha256(" \o bytes \o ")"

\* hash_file: the digest of the file's content.
MutHashFileWithMtime(path) == sha256(fs[path].content \o ToString(fs[path].mtime))
hash_file(path) == sha256(fs[path].content)

\* FileState(path, hash, mtime)
FileState(path, hash, mtime) == [path |-> path, hash |-> hash, mtime |-> mtime]

\* iter_files + the try/except OSError of the scan loops: every file of the
\* directory that can be read gets a FileState.
MutScanDirectoryAll ==
    [path \in DOMAIN fs |-> FileState(path, hash_file(path), fs[path].mtime)]
ScanDirectory ==
    [path \in {p \in DOMAIN fs : fs[p].readable} |->
        FileState(path, hash_file(path), fs[path].mtime)]

\* json.dump writes a number as its decimal text and json.load reads the
\* text back as the number it denotes.  MaxMtime bounds the mtimes of the
\* Stores that are saved and reloaded.
MaxMtime == 2
JsonNumbers == 0..Max(MaxMtime, MaxClock)
json_dump_number(n) == ToString(n)
json_load_number(text) == CHOOSE n \in JsonNumbers : ToString(n) = text

\* save_baseline's payload: {path: {"hash": fs.hash, "mtime": fs.mtime}}, as
\* json.dump writes it.
BaselinePayload(store) ==
    [path \in DOMAIN store |->
        [hash |-> store[path].hash, mtime |-> json_dump_number(store[path].mtime)]]

\* save_baseline when the write succeeds.
save_baseline(store) == [exists |-> TRUE, valid |-> TRUE, data |-> BaselinePayload(store)]

\* save_baseline when the write fails: open(..., "w") has truncated the file
\* or could not open it at all.
save_baseline_failed(old) ==
    {old, [exists |-> TRUE, valid |-> FALSE, data |-> EmptyMap]}

\* load_baseline of a file that parses.
MutLoadBaselineMtimeNow(file) ==
    IF ~file.exists THEN EmptyMap
    ELSE [path \in DOMAIN file.data |-> FileState(path, file.data[path].hash, 0)]

load_baseline(file) ==
    IF ~file.exists THEN EmptyMap
    ELSE [path \in DOMAIN file.data |->
            FileState(path, file.data[path].hash,
                      json_load_number(file.data[path].mtime))]

NoBaseline == [exists |-> FALSE, valid |-> TRUE, data |-> EmptyMap]

(***************************************************************************)
(* src/fim_agent.py: EventLogger.                                          *)
(***************************************************************************)
MITRE_MAP == [create |-> "T1059", modify |-> "T1565", delete |-> "T1070"]
RISK_MAP == [create |-> 40, modify |-> 60, delete |-> 70]

\* json.dumps(event, sort_keys=True): the fields in the order of their keys.
\* The dict comes from asdict(event), so the key integrity_chain is in it,
\* holding whatever the event holds in that field.
MutJsonDumpsNoHashAfter(event) ==
    "{ai_risk_score:" \o ToString(event.ai_risk_score)
    \o ",event_id:" \o event.event_id
    \o ",event_type:" \o event.event_type
    \o ",file_path:" \o event.file_path
    \o ",hash_before:" \o event.hash_before
    \o ",host:" \o event.host
    \o ",integrity_chain:" \o event.integrity_chain
    \o ",mitre_technique:" \o event.mitre_technique
    \o ",process_name:" \o event.process_name
    \o ",reason:" \o event.reason
    \o ",site:" \o event.site
    \o ",timestamp:" \o ToString(event.timestamp)
    \o ",user:" \o event.user
    \o "}"

json_dumps_sorted(event) ==
    "{ai_risk_score:" \o ToString(event.ai_risk_score)
    \o ",event_id:" \o event.event_id
    \o ",event_type:" \o event.event_type
    \o ",file_path:" \o event.file_path
    \o ",hash_after:" \o event.hash_after
    \o ",hash_before:" \o event.hash_before
    \o ",host:" \o event.host
    \o ",integrity_chain:" \o event.integrity_chain
    \o ",mitre_technique:" \o event.mitre_technique
    \o ",process_name:" \o event.process_name
    \o ",reason:" \o event.reason
    \o ",site:" \o event.site
    \o ",timestamp:" \o ToString(event.timestamp)
    \o ",user:" \o event.user
    \o "}"

\* EventLogger._next_chain
MutNextChainNoPrev(last, event) == sha256(json_dumps_sorted(event))
_next_chain(last, event) == sha256(last \o json_dumps_sorted(event))

\* The payload that EventLogger.log writes for an event.
log_payload(last, event) ==
    [event EXCEPT !.integrity_chain = _next_chain(last, event)]

\* One line of the log file: json.dumps(payload) + "\n".  nbytes counts the
\* bytes of the line with its newline; whole is TRUE for a line that is the
\* json of one record, ended is FALSE for a line that a failed write left
\* without its newline.
LineBytes(payload) == RecordOverheadBytes + PathBytes(payload.file_path) + 1
LogLine(payload) ==
    [payload |-> payload, nbytes |-> LineBytes(payload), whole |-> TRUE, ended |-> TRUE]
PartialLine(payload) ==
    [payload |-> payload, nbytes |-> LineBytes(payload) - 2, whole |-> FALSE,
     ended |-> FALSE]

\* open(self.log_path, "a") ... f.write: the bytes go to the end of the
\* file.  After a line without newline they continue that line, which is
\* then the json of no record.
Unterminated(lines) == lines # <<>> /\ ~lines[Len(lines)].ended
WriteLine(lines, line) ==
    IF Unterminated(lines)
    THEN [lines EXCEPT ![Len(lines)] =
             [payload |-> @.payload, nbytes |-> @.nbytes + line.nbytes,
              whole |-> FALSE, ended |-> line.ended]]
    ELSE Append(lines, line)

\* The bytes read back by _load_last_chain: the last TailBytes of the file.
TailBytes == 4096

\* EventLogger._load_last_chain: the integrity_chain of the last line of
\* the tail, "" when there is no log, no line, or json.loads raises because
\* the last line is not the json of a record or the tail starts inside it.
MutLoadLastChainFresh(file) == ""
RECURSIVE MutLoadLastChainSkipsBadTail(_)
MutLoadLastChainSkipsBadTail(file) ==
    IF ~file.exists \/ file.lines = <<>> THEN ""
    ELSE LET last == file.lines[Len(file.lines)] IN
         IF last.whole THEN last.payload.integrity_chain
         ELSE MutLoadLastChainSkipsBadTail(
                 [file EXCEPT !.lines = SubSeq(file.lines, 1, Len(file.lines) - 1)])
_load_last_chain(file) ==
    IF ~file.exists \/ file.lines = <<>> THEN ""
    ELSE LET size == SumBytes(file.lines)
             start == Max(size - TailBytes, 0)
             last == file.lines[Len(file.lines)]
             lastStart == size - last.nbytes
         IN IF last.whole /\ lastStart >= start
            THEN last.payload.integrity_chain
            ELSE ""

NoLog == [exists |-> FALSE, lines |-> <<>>]

(***************************************************************************)
(* src/fim_agent.py: FIMMonitor, change detection.                         *)
(***************************************************************************)
\* FIMMonitor._make_event; id is the fresh uuid4, now the clock reading.
MutMakeEventSameHash(event_type, path, old_hash, new_hash, reason, id, now) ==
    [event_id |-> "ev" \o ToString(id),
     timestamp |-> now,
     event_type |-> event_type,
     file_path |-> path,
     hash_before |-> new_hash,
     hash_after |-> new_hash,
     ai_risk_score |-> RISK_MAP[event_type],
     mitre_technique |-> MITRE_MAP[event_type],
     user |-> "user",
     process_name |-> "fim_agent.py",
     host |-> "localhost",
     site |-> "production",
     reason |-> reason,
     integrity_chain |-> ""]

_make_event(event_type, path, old_hash, new_hash, reason, id, now) ==
    [event_id |-> "ev" \o ToString(id),
     timestamp |-> now,
     event_type |-> event_type,
     file_path |-> path,
     hash_before |-> old_hash,
     hash_after |-> new_hash,
     ai_risk_score |-> RISK_MAP[event_type],
     mitre_technique |-> MITRE_MAP[event_type],
     user |-> "user",
     process_name |-> "fim_agent.py",
     host |-> "localhost",
     site |-> "production",
     reason |-> reason,
     integrity_chain |-> ""]

\* The three sets of _detect_changes.
created(store, snap) == DOMAIN snap \ DOMAIN store
MutDeletedNone(store, snap) == {}
deleted(store, snap) == DOMAIN store \ DOMAIN snap
maybe_modified(store, snap) == DOMAIN snap \cap DOMAIN store

\* The test of the third loop of _detect_changes.
MutDriftByMtime(old, new) == old.hash # new.hash \/ old.mtime # new.mtime
HashDrift(old, new) == old.hash # new.hash

modified(store, snap) ==
    {p \in maybe_modified(store, snap) : HashDrift(store[p], snap[p])}

\* FIMMonitor._detect_changes.  The three loops run over Python sets, whose
\* iteration order is not fixed: oc, od and om are the orders in which the
\* loops visit created, deleted and the modified paths.  Events get
\* consecutive fresh ids starting at id0.
_detect_changes(store, snap, oc, od, om, id0, now) ==
    [i \in 1..Len(oc) |->
        _make_event("create", oc[i], "-", snap[oc[i]].hash,
                    "New file observed; validate change control.", id0 + i - 1, now)]
    \o
    [i \in 1..Len(od) |->
        _make_event("delete", od[i], store[od[i]].hash, "-",
                    "File removed; check for indicator removal or cleanup.",
                    id0 + Len(oc) + i - 1, now)]
    \o
    [i \in 1..Len(om) |->
        _make_event("modify", om[i], store[om[i]].hash, snap[om[i]].hash,
                    "Hash drift detected; confirm authorized change.",
                    id0 + Len(oc) + Len(od) + i - 1, now)]

(***************************************************************************)
(* The monitor process: FIMMonitor.__init__ and FIMMonitor.run.            *)
(*                                                                         *)
(* pc: "off" not started; "init" constructed, before                       *)
(* load_or_build_baseline; "scan" at the top of the while loop; "log"      *)
(* inside _handle_events; "replace" before self.states = snapshot; "save"  *)
(* before save_baseline; "sleep" in time.sleep; "stopped" after            *)
(* sys.exit(0) or a fatal signal; "crashed" after an uncaught exception.   *)
(***************************************************************************)
Running == {"scan", "log", "replace", "save", "sleep"}
Ended == {"off", "stopped", "crashed"}

File(content, mtime) == [content |-> content, mtime |-> mtime, readable |-> TRUE]

InitDirs ==
    {EmptyMap} \cup {[p \in {"a"} |-> File(c, 0)] : c \in Contents}

NoHist ==
    [run |-> 0,                    \* how often the process was started
     fsOps |-> 0,                  \* how many changes the directory has seen
     cycleStates |-> EmptyMap,     \* the Store when the last scan began
     cycleBaseline |-> NoBaseline, \* the baseline file at that moment
     cycleSnapshot |-> EmptyMap,   \* the snapshot of the last scan
     cycleEvents |-> <<>>,         \* what _detect_changes returned for it
     failed |-> FALSE,             \* a write has failed in this run
     failedLogLen |-> 0,           \* lines in the log after that failure
     signalPc |-> "none",          \* where run was when stop_handler ran
     builtFrom |-> {},             \* until the first poll: the files that
                                   \* build_initial_baseline walked over
     scanned |-> FALSE,            \* the loop of this run has scanned
     scannedDir |-> EmptyMap,      \* the directory as the last scan found it
     prevEmitted |-> FALSE,        \* the scan before the last gave events
     tamper |-> [kind |-> "none", intact |-> FALSE, last |-> FALSE,
                 matching |-> FALSE]]
                                   \* what has been done to the log from outside

MonInit ==
    /\ fs \in InitDirs
    /\ clock = 0
    /\ baselineFile = NoBaseline
    /\ logFile = NoLog
    /\ pc = "off"
    /\ states = EmptyMap
    /\ snapshot = EmptyMap
    /\ events = <<>>
    /\ last_chain_hash = ""
    /\ nextId = 1
    /\ hist = NoHist

\* A process is started: FIMMonitor.__init__ builds the EventLogger, whose
\* __init__ reads the last chain value back from the log.
Construct ==
    /\ pc \in Ended
    /\ hist.run < MaxRuns
    /\ pc' = "init"
    /\ states' = EmptyMap
    /\ snapshot' = EmptyMap
    /\ events' = <<>>
    /\ last_chain_hash' = _load_last_chain(logFile)
    /\ hist' = [NoHist EXCEPT !.run = hist.run + 1, !.fsOps = hist.fsOps,
                              !.tamper = hist.tamper]
    /\ UNCHANGED <<cliVars, srvVars>>
    /\ UNCHANGED <<fs, clock, baselineFile, logFile, nextId>>

\* FIMMonitor.load_or_build_baseline, then the signal handlers are set.
\* json.load raises on a baseline file that a failed write left truncated.
MutLoadBaselineRescans ==
    /\ pc = "init"
    /\ baselineFile.exists
    /\ states' = ScanDirectory
    /\ baselineFile' = save_baseline(ScanDirectory)
    /\ pc' = "scan"
    /\ UNCHANGED <<cliVars, srvVars>>
    /\ UNCHANGED <<fs, clock, logFile, snapshot, events, last_chain_hash,
                   nextId, hist>>

LoadBaseline ==
    /\ pc = "init"
    /\ baselineFile.exists
    /\ IF baselineFile.valid
       THEN /\ states' = load_baseline(baselineFile)
            /\ pc' = "scan"
       ELSE /\ states' = states
            /\ pc' = "crashed"
    /\ UNCHANGED <<cliVars, srvVars>>
    /\ UNCHANGED <<fs, clock, baselineFile, logFile, snapshot, events,
                   last_chain_hash, nextId, hist>>

\* build_initial_baseline: scan, save, return the states.
BuildBaseline ==
    /\ pc = "init"
    /\ ~baselineFile.exists
    /\ states' = ScanDirectory
    /\ baselineFile' = save_baseline(ScanDirectory)
    /\ pc' = "scan"
    /\ hist' = [hist EXCEPT !.builtFrom = DOMAIN fs]
    /\ UNCHANGED <<cliVars, srvVars>>
    /\ UNCHANGED <<fs, clock, logFile, snapshot, events, last_chain_hash, nextId>>

\* build_initial_baseline when save_baseline raises.
BuildBaselineFails ==
    /\ pc = "init"
    /\ ~baselineFile.exists
    /\ baselineFile' \in save_baseline_failed(baselineFile)
    /\ pc' = "crashed"
    /\ hist' = [hist EXCEPT !.failed = TRUE, !.failedLogLen = Len(logFile.lines)]
    /\ UNCHANGED <<cliVars, srvVars>>
    /\ UNCHANGED <<fs, clock, logFile, states, snapshot, events,
                   last_chain_hash, nextId>>

\* The top of the while loop: snapshot = self._current_snapshot();
\* events = self._detect_changes(snapshot); if events: ...
PollScan ==
    /\ pc = "scan"
    /\ LET snap == ScanDirectory IN
       \E oc \in Perms(created(states, snap)),
          od \in Perms(deleted(states, snap)),
          om \in Perms(modified(states, snap)),
          now \in clock..Min(clock + 1, MaxClock) :
          LET evs == _detect_changes(states, snap, oc, od, om, nextId, now) IN
          /\ Len(logFile.lines) + Len(evs) <= MaxLog
          /\ clock' = now
          /\ snapshot' = snap
          /\ events' = evs
          /\ nextId' = nextId + Len(evs)
          /\ pc' = IF evs # <<>> THEN "log" ELSE "sleep"
          /\ hist' = [hist EXCEPT !.cycleStates = states,
                                  !.cycleBaseline = baselineFile,
                                  !.cycleSnapshot = snap,
                                  !.cycleEvents = evs,
                                  !.builtFrom = {},
                                  !.scanned = TRUE,
                                  !.scannedDir = fs,
                                  !.prevEmitted = (hist.cycleEvents # <<>>)]
    /\ UNCHANGED <<cliVars, srvVars>>
    /\ UNCHANGED <<fs, baselineFile, logFile, states, last_chain_hash>>

\* One turn of the loop of _handle_events: EventLogger.log(event), the write
\* succeeding.
LogEvent ==
    /\ pc = "log"
    /\ events # <<>>
    /\ LET payload == log_payload(last_chain_hash, Head(events)) IN
       /\ last_chain_hash' = payload.integrity_chain
       /\ logFile' = [exists |-> TRUE,
                      lines |-> WriteLine(logFile.lines, LogLine(payload))]
    /\ events' = Tail(events)
    /\ pc' = IF Tail(events) = <<>> THEN "replace" ELSE "log"
    /\ UNCHANGED <<cliVars, srvVars>>
    /\ UNCHANGED <<fs, clock, baselineFile, states, snapshot, nextId, hist>>

\* EventLogger.log when open or write raises OSError: last_chain_hash is
\* already assigned; the file has got nothing, or an unfinished line.  The
\* exception leaves _handle_events and run: nothing catches it.
MutLogEventFailsSwallowed ==
    /\ pc = "log"
    /\ events # <<>>
    /\ last_chain_hash' = log_payload(last_chain_hash, Head(events)).integrity_chain
    /\ events' = Tail(events)
    /\ pc' = IF Tail(events) = <<>> THEN "replace" ELSE "log"
    /\ hist' = [hist EXCEPT !.failed = TRUE, !.failedLogLen = Len(logFile.lines)]
    /\ UNCHANGED <<cliVars, srvVars>>
    /\ UNCHANGED <<fs, clock, baselineFile, logFile, states, snapshot, nextId>>

LogEventFails ==
    /\ pc = "log"
    /\ events # <<>>
    /\ LET payload == log_payload(last_chain_hash, Head(events)) IN
       /\ last_chain_hash' = payload.integrity_chain
       /\ \/ logFile' = logFile
          \/ logFile' = [exists |-> TRUE,
                         lines |-> WriteLine(logFile.lines, PartialLine(payload))]
    /\ pc' = "crashed"
    /\ hist' = [hist EXCEPT !.failed = TRUE, !.failedLogLen = Len(logFile'.lines)]
    /\ UNCHANGED <<cliVars, srvVars>>
    /\ UNCHANGED <<fs, clock, baselineFile, states, snapshot, events, nextId>>

\* self.states = snapshot
MutReplaceStoreSkipped ==
    /\ pc = "replace"
    /\ states' = states
    /\ pc' = "save"
    /\ UNCHANGED <<cliVars, srvVars>>
    /\ UNCHANGED <<fs, clock, baselineFile, logFile, snapshot, events,
                   last_chain_hash, nextId, hist>>

ReplaceStore ==
    /\ pc = "replace"
    /\ states' = snapshot
    /\ pc' = "save"
    /\ UNCHANGED <<cliVars, srvVars>>
    /\ UNCHANGED <<fs, clock, baselineFile, logFile, snapshot, events,
                   last_chain_hash, nextId, hist>>

\* save_baseline(self.states, self.baseline_path), then time.sleep begins.
SaveBaseline ==
    /\ pc = "save"
    /\ baselineFile' = save_baseline(states)
    /\ pc' = "sleep"
    /\ UNCHANGED <<cliVars, srvVars>>
    /\ UNCHANGED <<fs, clock, logFile, states, snapshot, events,
                   last_chain_hash, nextId, hist>>

\* save_baseline raises: the exception leaves run.
SaveBaselineFails ==
    /\ pc = "save"
    /\ baselineFile' \in save_baseline_failed(baselineFile)
    /\ pc' = "crashed"
    /\ hist' = [hist EXCEPT !.failed = TRUE, !.failedLogLen = Len(logFile.lines)]
    /\ UNCHANGED <<cliVars, srvVars>>
    /\ UNCHANGED <<fs, clock, logFile, states, snapshot, events,
                   last_chain_hash, nextId>>

\* time.sleep(self.poll_interval) returns.
Sleep ==
    /\ pc = "sleep"
    /\ pc' = "scan"
    /\ UNCHANGED <<cliVars, srvVars>>
    /\ UNCHANGED <<fs, clock, baselineFile, logFile, states, snapshot, events,
                   last_chain_hash, nextId, hist>>

\* SIGINT or SIGTERM once the handlers are set: Python runs stop_handler in
\* the main thread between two bytecodes, wherever run is:
\* save_baseline(self.states, ...) and sys.exit(0).
stop_handler ==
    /\ pc \in Running
    /\ baselineFile' = save_baseline(states)
    /\ pc' = "stopped"
    /\ hist' = [hist EXCEPT !.signalPc = pc]
    /\ UNCHANGED <<cliVars, srvVars>>
    /\ UNCHANGED <<fs, clock, logFile, states, snapshot, events,
                   last_chain_hash, nextId>>

\* SIGINT or SIGTERM before the handlers are set ends the process at once.
SignalBeforeHandlers ==
    /\ pc = "init"
    /\ pc' = "stopped"
    /\ UNCHANGED <<cliVars, srvVars>>
    /\ UNCHANGED <<fs, clock, baselineFile, logFile, states, snapshot, events,
                   last_chain_hash, nextId, hist>>

\* The environment: the system clock, which datetime.now reads, is set back
\* (by its administrator or by a time-synchronisation step) between two polls.
ClockSetBack ==
    /\ pc = "scan"
    /\ clock > 0
    /\ clock' \in 0..(clock - 1)
    /\ UNCHANGED <<cliVars, srvVars>>
    /\ UNCHANGED <<fs, baselineFile, logFile, pc, states, snapshot, events,
                   last_chain_hash, nextId, hist>>

(***************************************************************************)
(* The environment: the watched directory.  The process reads the          *)
(* directory only when it scans (BuildBaseline, PollScan), so a change     *)
(* made at any other moment is seen exactly as if it were made just before *)
(* the next scan: the changes are taken where a scan can follow.  Time     *)
(* passes between two polls (PollScan reads the clock).                    *)
(***************************************************************************)
FsMayChange == pc \in {"init", "scan"}

FsWrite ==
    /\ FsMayChange
    /\ hist.fsOps < MaxFsOps
    /\ \E p \in Paths, c \in Contents :
          /\ IF p \in DOMAIN fs THEN fs[p].content # c ELSE TRUE
          /\ fs' = [q \in DOMAIN fs \cup {p} |-> IF q = p THEN File(c, clock) ELSE fs[q]]
    /\ hist' = [hist EXCEPT !.fsOps = @ + 1]
    /\ UNCHANGED <<cliVars, srvVars>>
    /\ UNCHANGED <<clock, baselineFile, logFile, pc, states, snapshot, events,
                   last_chain_hash, nextId>>

\* touch / utime: the mtime changes, the content does not.
FsTouch ==
    /\ FsMayChange
    /\ hist.fsOps < MaxFsOps
    /\ \E p \in DOMAIN fs, m \in Mtimes :
          /\ fs[p].mtime # m
          /\ fs' = [fs EXCEPT ![p].mtime = m]
    /\ hist' = [hist EXCEPT !.fsOps = @ + 1]
    /\ UNCHANGED <<cliVars, srvVars>>
    /\ UNCHANGED <<clock, baselineFile, logFile, pc, states, snapshot, events,
                   last_chain_hash, nextId>>

FsDelete ==
    /\ FsMayChange
    /\ hist.fsOps < MaxFsOps
    /\ \E p \in DOMAIN fs :
          fs' = [q \in DOMAIN fs \ {p} |-> fs[q]]
    /\ hist' = [hist EXCEPT !.fsOps = @ + 1]
    /\ UNCHANGED <<cliVars, srvVars>>
    /\ UNCHANGED <<clock, baselineFile, logFile, pc, states, snapshot, events,
                   last_chain_hash, nextId>>

\* chmod: the file becomes unreadable, or readable again.
FsChmod ==
    /\ FsMayChange
    /\ hist.fsOps < MaxFsOps
    /\ \E p \in DOMAIN fs :
          fs' = [fs EXCEPT ![p].readable = ~@]
    /\ hist' = [hist EXCEPT !.fsOps = @ + 1]
    /\ UNCHANGED <<cliVars, srvVars>>
    /\ UNCHANGED <<clock, baselineFile, logFile, pc, states, snapshot, events,
                   last_chain_hash, nextId>>

\* No request is served in the specifications of the monitor and the client.
NoHttp == [phase |-> "none", path |-> "", query |-> <<>>, limit |-> 0,
           status |-> 0, body |-> <<>>]
NoBoot == [phase |-> "none", file |-> [kind |-> "none", raw |-> <<>>],
           reported |-> FALSE, exit |-> 0]
SrvIdle == http = NoHttp /\ boot = NoBoot

\* The client does not run in the monitor's specification.
CliIdle ==
    /\ cfg = [max_queue_size |-> 1, batch_size |-> 1]
    /\ queue = <<>>
    /\ stop_event = FALSE
    /\ thr = <<>>
    /\ posts = <<>>
    /\ failBudget = 0
    /\ nextPayload = 1
    /\ chist = <<>>

Next ==
    \/ Construct
    \/ LoadBaseline
    \/ BuildBaseline
    \/ BuildBaselineFails
    \/ PollScan
    \/ LogEvent
    \/ LogEventFails
    \/ ReplaceStore
    \/ SaveBaseline
    \/ SaveBaselineFails
    \/ Sleep
    \/ stop_handler
    \/ SignalBeforeHandlers
    \/ FsWrite
    \/ FsTouch
    \/ FsDelete
    \/ FsChmod
    \/ ClockSetBack

Init == MonInit /\ CliIdle /\ SrvIdle
Spec == Init /\ [][Next]_vars

(***************************************************************************)
(* src/fim_agent/hackstone_client.py: HackstoneClient.                     *)
(*                                                                         *)
(* Two threads run the client's code: "main", the thread of the poll loop, *)
(* which calls start, enqueue and stop, and "sender", the thread started   *)
(* by start on _run.  Each call of a method of queue.Queue is one atomic   *)
(* step (the queue has its own lock); the threads interleave between them. *)
(*                                                                         *)
(* thr[t] holds where thread t is:                                         *)
(*   top   main: "idle", "enq" inside enqueue, "stopping" inside the       *)
(*         _flush of stop, "joining" in join, "stopped" after stop         *)
(*         returned, "crashed" after an uncaught exception;                *)
(*         sender: "unstarted", "loop" at the test of the while,           *)
(*         "flush" in the _flush of the loop, "wait" in the wait,          *)
(*         "final" in the last _flush, "done" after _run returned,         *)
(*         "dead" after an exception left _run;                            *)
(*   fl    inside _flush: "deq" in _dequeue_batch, "post" before the POST, *)
(*         "requeue" in a loop "for evt in batch: self.enqueue(evt)";      *)
(*   batch, k       the batch of _flush and the index of the loop;        *)
(*   inExcept       the loop is the one of the except clause;              *)
(*   en    inside enqueue: "full" before full(), "get" before get_nowait,  *)
(*         "put" before put_nowait; evt is its argument;                   *)
(*   status         what the POST of this _flush gave;                     *)
(*   removed, lenAtGet, sawFull   what this call of enqueue took out, how  *)
(*         long the queue was then, and what full() answered;              *)
(*   calls          the arguments of the enqueue calls the _flush made     *)
(*         (the last four are read by the properties only).                *)
(***************************************************************************)
MaxPayloads == 2     \* the producer hands at most this many payloads over
MaxFailures == 1     \* the collector fails at most this many POSTs

Threads == {"main", "sender"}
QueueSizes == {0, 1, 2}      \* configured max_queue_size
BatchSizes == {0, 1, 2}      \* configured batch_size

\* HackstoneClient.__init__: batch_size is clamped, max_queue_size is not.
HackstoneClientInit(max_queue_size, batch_size) ==
    [max_queue_size |-> max_queue_size, batch_size |-> Max(1, batch_size)]

\* queue.Queue.full(): 0 < maxsize <= qsize; a maxsize <= 0 is no bound.
MutFullOffByOne(q) == 0 < cfg.max_queue_size /\ cfg.max_queue_size < Len(q)
QueueFull(q) == 0 < cfg.max_queue_size /\ cfg.max_queue_size <= Len(q)

Thread(top) ==
    [top |-> top, fl |-> "none", batch |-> <<>>, k |-> 0, inExcept |-> FALSE,
     en |-> "none", evt |-> 0, removed |-> <<>>, lenAtGet |-> 0, sawFull |-> FALSE,
     status |-> "none", calls |-> <<>>]

NoCHist ==
    [dropped |-> {},         \* payloads evicted by enqueue
     failedPending |-> {},   \* in a failed POST of the sender, not POSTed since
     lost |-> {},            \* failedPending payloads that an enqueue evicted
     lastEnq |-> [by |-> "none", evt |-> 0, sawFull |-> FALSE, removed |-> <<>>,
                  lenAtGet |-> 0, inserted |-> TRUE, last |-> TRUE],
                             \* the last call of enqueue that has ended
     lastFlush |-> [by |-> "none", status |-> "none", batch |-> <<>>,
                    calls |-> <<>>, escaped |-> FALSE]]
                             \* the last _flush with a POST that has ended

CliInit ==
    /\ cfg \in {HackstoneClientInit(m, b) : m \in QueueSizes, b \in BatchSizes}
    /\ queue = <<>>
    /\ stop_event = FALSE
    /\ thr = [t \in Threads |-> IF t = "main" THEN Thread("idle") ELSE Thread("unstarted")]
    /\ posts = <<>>
    /\ failBudget = MaxFailures
    /\ nextPayload = 1
    /\ chist = NoCHist

\* The process is alive: an uncaught exception in the main thread, or the
\* return of main after stop, ends it together with the daemon sender.
ProcessAlive == thr["main"].top \notin {"crashed", "stopped"}

\* HackstoneClient.start
Start ==
    /\ ProcessAlive
    /\ thr["main"].top = "idle"
    /\ thr["sender"].top = "unstarted"
    /\ thr' = [thr EXCEPT !["sender"] = Thread("loop")]
    /\ UNCHANGED <<cfg, queue, stop_event, posts, failBudget, nextPayload, chist>>
    /\ UNCHANGED <<monVars, srvVars>>

\* FIMAgent.handle_local_event: the producer calls enqueue with a new payload.
ProducerEnqueue ==
    /\ ProcessAlive
    /\ thr["main"].top = "idle"
    /\ nextPayload <= MaxPayloads
    /\ thr' = [thr EXCEPT !["main"] =
                  [Thread("enq") EXCEPT !.en = "full", !.evt = nextPayload]]
    /\ nextPayload' = nextPayload + 1
    /\ UNCHANGED <<cfg, queue, stop_event, posts, failBudget, chist>>
    /\ UNCHANGED <<monVars, srvVars>>

\* enqueue: if self._queue.full():
EnqueueFull(t) ==
    /\ ProcessAlive
    /\ thr[t].en = "full"
    /\ thr' = [thr EXCEPT ![t].en = IF QueueFull(queue) THEN "get" ELSE "put",
                          ![t].sawFull = QueueFull(queue),
                          ![t].removed = <<>>]
    /\ UNCHANGED <<cfg, queue, stop_event, posts, failBudget, nextPayload, chist>>
    /\ UNCHANGED <<monVars, srvVars>>

\* enqueue: dropped = self._queue.get_nowait(), queue.Empty being passed over.
EnqueueGet(t) ==
    /\ ProcessAlive
    /\ thr[t].en = "get"
    /\ IF queue # <<>>
       THEN /\ queue' = Tail(queue)
            /\ thr' = [thr EXCEPT ![t].en = "put", ![t].removed = <<Head(queue)>>,
                                  ![t].lenAtGet = Len(queue)]
            /\ chist' = [chist EXCEPT
                   !.dropped = @ \cup {Head(queue)},
                   !.lost = @ \cup ({Head(queue)} \cap chist.failedPending)]
       ELSE /\ queue' = queue
            /\ thr' = [thr EXCEPT ![t].en = "put"]
            /\ chist' = chist
    /\ UNCHANGED <<cfg, stop_event, posts, failBudget, nextPayload>>
    /\ UNCHANGED <<monVars, srvVars>>

\* Where a thread is once its _flush has returned.
AfterFlush(c) ==
    [Thread(CASE c.top = "flush" -> "wait"
              [] c.top = "final" -> "done"
              [] c.top = "stopping" -> "joining"
              [] OTHER -> c.top) EXCEPT !.calls = <<>>]

\* Where a thread is once a call of enqueue has returned.
MutAfterEnqueueFirstOnly(c) ==
    IF c.fl = "requeue" THEN AfterFlush(c) ELSE Thread("idle")

AfterEnqueue(c) ==
    IF c.fl = "requeue"
    THEN IF c.k < Len(c.batch)
         THEN [c EXCEPT !.k = c.k + 1, !.en = "full", !.evt = c.batch[c.k + 1],
                        !.calls = Append(c.calls, c.batch[c.k + 1])]
         ELSE AfterFlush(c)
    ELSE Thread("idle")

\* Where a thread is once put_nowait has raised queue.Full: in the loop of
\* the else branch the except clause of _flush catches it and runs its own
\* loop over the batch; in the loop of the except clause, and in a call of
\* the producer, nothing catches it.
AfterFull(c) ==
    IF c.fl = "requeue" /\ ~c.inExcept
    THEN [c EXCEPT !.inExcept = TRUE, !.k = 1, !.en = "full", !.evt = c.batch[1],
                   !.calls = Append(c.calls, c.batch[1])]
    ELSE Thread(IF c.top \in {"flush", "final"} THEN "dead" ELSE "crashed")

FlushRecord(t, c, escaped) ==
    [by |-> t, status |-> c.status, batch |-> c.batch, calls |-> c.calls,
     escaped |-> escaped]

\* enqueue: self._queue.put_nowait(event)
EnqueuePut(t) ==
    /\ ProcessAlive
    /\ thr[t].en = "put"
    /\ LET c == thr[t]
           raises == 0 < cfg.max_queue_size /\ Len(queue) >= cfg.max_queue_size
           ends == IF raises THEN c.fl = "requeue" /\ c.inExcept
                   ELSE c.fl = "requeue" /\ c.k >= Len(c.batch)
       IN /\ queue' = IF raises THEN queue ELSE Append(queue, c.evt)
          /\ thr' = [thr EXCEPT ![t] = IF raises THEN AfterFull(c) ELSE AfterEnqueue(c)]
          /\ chist' = [chist EXCEPT
                 !.lastEnq = [by |-> t, evt |-> c.evt, sawFull |-> c.sawFull,
                              removed |-> c.removed, lenAtGet |-> c.lenAtGet,
                              inserted |-> ~raises,
                              last |-> (~raises => queue'[Len(queue')] = c.evt)],
                 !.lastFlush = IF ends THEN FlushRecord(t, c, raises) ELSE @]
    /\ UNCHANGED <<cfg, stop_event, posts, failBudget, nextPayload>>
    /\ UNCHANGED <<monVars, srvVars>>

\* _run: while not self._stop_event.is_set(): self._flush() ...; after the
\* loop the last self._flush().
SenderLoop ==
    /\ ProcessAlive
    /\ thr["sender"].top = "loop"
    /\ thr' = [thr EXCEPT !["sender"] =
                  [Thread(IF stop_event THEN "final" ELSE "flush") EXCEPT !.fl = "deq"]]
    /\ UNCHANGED <<cfg, queue, stop_event, posts, failBudget, nextPayload, chist>>
    /\ UNCHANGED <<monVars, srvVars>>

\* _run: self._stop_event.wait(self.send_interval_seconds) returns, the
\* interval being over or the event set.
SenderWait ==
    /\ ProcessAlive
    /\ thr["sender"].top = "wait"
    /\ thr' = [thr EXCEPT !["sender"] = Thread("loop")]
    /\ UNCHANGED <<cfg, queue, stop_event, posts, failBudget, nextPayload, chist>>
    /\ UNCHANGED <<monVars, srvVars>>

\* _dequeue_batch: one turn of the while loop, and "if not batch: return".
FlushDequeue(t) ==
    /\ ProcessAlive
    /\ thr[t].fl = "deq"
    /\ LET c == thr[t] IN
       IF Len(c.batch) < cfg.batch_size /\ queue # <<>>
       THEN /\ queue' = Tail(queue)
            /\ thr' = [thr EXCEPT ![t].batch = Append(c.batch, Head(queue))]
       ELSE /\ queue' = queue
            /\ thr' = [thr EXCEPT ![t] = IF c.batch = <<>> THEN AfterFlush(c)
                                         ELSE [c EXCEPT !.fl = "post"]]
    /\ UNCHANGED <<cfg, stop_event, posts, failBudget, nextPayload, chist>>
    /\ UNCHANGED <<monVars, srvVars>>

\* The body of the POST: the object itself for one payload, else the list.
MutPostBodyAlwaysArray(batch) == [array |-> batch]
PostBody(batch) == IF Len(batch) = 1 THEN [object |-> batch[1]] ELSE [array |-> batch]

\* One request: who issued it, the batch of its _flush, the json of the
\* request and how it ended.
Post(t, batch, status) ==
    [by |-> t, batch |-> batch, body |-> PostBody(batch), status |-> status]

\* _flush: self.session.post(...) answers with a 2xx status.
FlushPostOk(t) ==
    /\ ProcessAlive
    /\ thr[t].fl = "post"
    /\ posts' = Append(posts, Post(t, thr[t].batch, "2xx"))
    /\ thr' = [thr EXCEPT ![t] = AfterFlush(thr[t])]
    /\ chist' = [chist EXCEPT
           !.failedPending = @ \ Range(thr[t].batch),
           !.lost = @ \ Range(thr[t].batch),
           !.lastFlush = FlushRecord(t, [thr[t] EXCEPT !.status = "2xx"], FALSE)]
    /\ UNCHANGED <<cfg, queue, stop_event, failBudget, nextPayload>>
    /\ UNCHANGED <<monVars, srvVars>>

\* _flush: the POST answers with another status ("non2xx"), or raises
\* ("error"); the loop over the batch begins, in the else branch or in the
\* except clause.
FlushPostFails(t) ==
    /\ ProcessAlive
    /\ thr[t].fl = "post"
    /\ failBudget > 0
    /\ failBudget' = failBudget - 1
    /\ \E status \in {"non2xx", "error"} :
          /\ posts' = Append(posts, Post(t, thr[t].batch, status))
          /\ thr' = [thr EXCEPT ![t].fl = "requeue", ![t].k = 1,
                                ![t].status = status,
                                ![t].inExcept = (status = "error"),
                                ![t].en = "full", ![t].evt = thr[t].batch[1],
                                ![t].calls = <<thr[t].batch[1]>>]
          /\ chist' = [chist EXCEPT
                 !.failedPending = IF t = "sender"
                                   THEN @ \cup Range(thr[t].batch)
                                   ELSE @ \ Range(thr[t].batch),
                 !.lost = @ \ Range(thr[t].batch)]
    /\ UNCHANGED <<cfg, queue, stop_event, nextPayload>>
    /\ UNCHANGED <<monVars, srvVars>>

\* HackstoneClient.stop: self._stop_event.set(), then self._flush() in the
\* calling thread if flush, then join.
Stop ==
    /\ ProcessAlive
    /\ thr["main"].top = "idle"
    /\ thr["sender"].top # "unstarted"
    /\ ~stop_event
    /\ stop_event' = TRUE
    /\ \E flush \in BOOLEAN :
          thr' = [thr EXCEPT !["main"] =
                     IF flush THEN [Thread("stopping") EXCEPT !.fl = "deq"]
                     ELSE Thread("joining")]
    /\ UNCHANGED <<cfg, queue, posts, failBudget, nextPayload, chist>>
    /\ UNCHANGED <<monVars, srvVars>>

\* stop: self._thread.join(timeout=timeout) returns, the sender having
\* ended or the timeout being over; _run_main_loop and main return.
Join ==
    /\ thr["main"].top = "joining"
    /\ thr' = [thr EXCEPT !["main"] = Thread("stopped")]
    /\ UNCHANGED <<cfg, queue, stop_event, posts, failBudget, nextPayload, chist>>
    /\ UNCHANGED <<monVars, srvVars>>

\* The monitor does not run in the client's specification.
MonIdle ==
    /\ fs = EmptyMap
    /\ clock = 0
    /\ baselineFile = NoBaseline
    /\ logFile = NoLog
    /\ pc = "off"
    /\ states = EmptyMap
    /\ snapshot = EmptyMap
    /\ events = <<>>
    /\ last_chain_hash = ""
    /\ nextId = 1
    /\ hist = NoHist

SenderNext ==
    \/ SenderLoop
    \/ SenderWait
    \/ EnqueueFull("sender")
    \/ EnqueueGet("sender")
    \/ EnqueuePut("sender")
    \/ FlushDequeue("sender")
    \/ FlushPostOk("sender")
    \/ FlushPostFails("sender")

ClientInit == CliInit /\ MonIdle /\ SrvIdle
ClientNext ==
    \/ Start
    \/ ProducerEnqueue
    \/ Stop
    \/ Join
    \/ EnqueueFull("main")
    \/ EnqueueGet("main")
    \/ EnqueuePut("main")
    \/ FlushDequeue("main")
    \/ FlushPostOk("main")
    \/ FlushPostFails("main")
    \/ SenderNext
ClientSpec == ClientInit /\ [][ClientNext]_vars

\* The sender thread is scheduled as long as the process is alive.
FairClientSpec == ClientSpec /\ WF_vars(SenderNext)

(***************************************************************************)
(* The monitor over one file's life (specification LifeSpec): the          *)
(* directory and the log start empty, and the file "a" is created, then    *)
(* rewritten with another content, then removed, each change being made    *)
(* once a poll cycle has taken the one before into the Store, so that each *)
(* is observed by a cycle of its own.  hist.fsOps counts the changes.      *)
(***************************************************************************)
StoreUpToDate ==
    /\ pc = "scan"
    /\ DOMAIN states = DOMAIN fs
    /\ \A p \in DOMAIN fs : states[p].hash = hash_file(p)

LifeCreate ==
    /\ StoreUpToDate
    /\ hist.fsOps = 0
    /\ fs = EmptyMap
    /\ \E c \in Contents : fs' = [p \in {"a"} |-> File(c, clock)]
    /\ hist' = [hist EXCEPT !.fsOps = 1]
    /\ UNCHANGED <<cliVars, srvVars>>
    /\ UNCHANGED <<clock, baselineFile, logFile, pc, states, snapshot, events,
                   last_chain_hash, nextId>>

LifeChange ==
    /\ StoreUpToDate
    /\ hist.fsOps = 1
    /\ "a" \in DOMAIN fs
    /\ \E c \in Contents \ {fs["a"].content} :
          fs' = [fs EXCEPT !["a"] = File(c, clock)]
    /\ hist' = [hist EXCEPT !.fsOps = 2]
    /\ UNCHANGED <<cliVars, srvVars>>
    /\ UNCHANGED <<clock, baselineFile, logFile, pc, states, snapshot, events,
                   last_chain_hash, nextId>>

LifeRemove ==
    /\ StoreUpToDate
    /\ hist.fsOps = 2
    /\ "a" \in DOMAIN fs
    /\ fs' = EmptyMap
    /\ hist' = [hist EXCEPT !.fsOps = 3]
    /\ UNCHANGED <<cliVars, srvVars>>
    /\ UNCHANGED <<clock, baselineFile, logFile, pc, states, snapshot, events,
                   last_chain_hash, nextId>>

LifeInit == Init /\ fs = EmptyMap

LifeNext ==
    \/ Construct
    \/ LoadBaseline
    \/ BuildBaseline
    \/ BuildBaselineFails
    \/ PollScan
    \/ LogEvent
    \/ LogEventFails
    \/ ReplaceStore
    \/ SaveBaseline
    \/ SaveBaselineFails
    \/ Sleep
    \/ stop_handler
    \/ SignalBeforeHandlers
    \/ LifeCreate
    \/ LifeChange
    \/ LifeRemove

LifeSpec == LifeInit /\ [][LifeNext]_vars

(***************************************************************************)
(* save_baseline and load_baseline on their own (specification             *)
(* BaselineSpec): a Store is chosen, saved to the baseline file, and the   *)
(* file is loaded.  states holds the Store, snapshot what is loaded; pc is *)
(* "chosen", "saved", "loaded".                                            *)
(***************************************************************************)
Hashes == {sha256(c) : c \in Contents}

\* Every Store over Paths: a dict from path to the FileState of that path.
Stores ==
    UNION {[S -> Hashes \X (0..MaxMtime)] : S \in SUBSET Paths}

StoreOf(f) == [p \in DOMAIN f |-> FileState(p, f[p][1], f[p][2])]

BaselineInit ==
    /\ \E f \in Stores : states = StoreOf(f)
    /\ pc = "chosen"
    /\ fs = EmptyMap
    /\ clock = 0
    /\ baselineFile = NoBaseline
    /\ logFile = NoLog
    /\ snapshot = EmptyMap
    /\ events = <<>>
    /\ last_chain_hash = ""
    /\ nextId = 1
    /\ hist = NoHist
    /\ CliIdle
    /\ SrvIdle

SaveStore ==
    /\ pc = "chosen"
    /\ baselineFile' = save_baseline(states)
    /\ pc' = "saved"
    /\ UNCHANGED <<cliVars, srvVars>>
    /\ UNCHANGED <<fs, clock, logFile, states, snapshot, events,
                   last_chain_hash, nextId, hist>>

LoadStore ==
    /\ pc = "saved"
    /\ snapshot' = load_baseline(baselineFile)
    /\ pc' = "loaded"
    /\ UNCHANGED <<cliVars, srvVars>>
    /\ UNCHANGED <<fs, clock, baselineFile, logFile, states, events,
                   last_chain_hash, nextId, hist>>

BaselineNext ==
    \/ SaveStore
    \/ LoadStore

BaselineSpec == BaselineInit /\ [][BaselineNext]_vars

\* C17: what load_baseline gives for the file that save_baseline wrote for
\* a Store has the paths of the Store and, for every path, its hash and its
\* mtime.
C17_BaselineRoundTrip ==
    pc = "loaded" =>
        /\ DOMAIN snapshot = DOMAIN states
        /\ \A p \in DOMAIN states :
              /\ snapshot[p].hash = states[p].hash
              /\ snapshot[p].mtime = states[p].mtime
              /\ snapshot[p].path = p

\* A Store of two files with different hashes and mtimes has been saved and
\* loaded.
C17_Witness ==
    /\ pc = "loaded"
    /\ DOMAIN states = Paths
    /\ states["a"].hash # states["b"].hash
    /\ states["a"].mtime # states["b"].mtime
    /\ states["b"].mtime > 0

(***************************************************************************)
(* Properties of the monitor (specification Spec).                         *)
(***************************************************************************)
\* How many events of evs have the given type and path.
CountEvents(evs, type, path) ==
    Cardinality({i \in DOMAIN evs :
                    evs[i].event_type = type /\ evs[i].file_path = path})

\* C1: the events of one poll cycle are exactly one create per path that is
\* in the snapshot and not in the Store, one delete per path in the Store
\* and not in the snapshot, one modify per path in both whose hashes differ,
\* and nothing else; a path in both with the same hash gives no event, also
\* when its mtime differs.
C1_EventsAreExactlyTheDiff ==
    LET S == hist.cycleStates
        C == hist.cycleSnapshot
        E == hist.cycleEvents
    IN /\ \A p \in Paths :
            /\ CountEvents(E, "create", p) =
                   IF p \in DOMAIN C /\ p \notin DOMAIN S THEN 1 ELSE 0
            /\ CountEvents(E, "delete", p) =
                   IF p \in DOMAIN S /\ p \notin DOMAIN C THEN 1 ELSE 0
            /\ CountEvents(E, "modify", p) =
                   IF p \in DOMAIN S /\ p \in DOMAIN C
                   THEN (IF S[p].hash # C[p].hash THEN 1 ELSE 0)
                   ELSE 0
       /\ \A i \in DOMAIN E :
            /\ E[i].event_type \in {"create", "delete", "modify"}
            /\ E[i].file_path \in Paths

\* A cycle that emitted an event while another path, in both the Store and
\* the snapshot, had only its mtime changed.
C1_Witness ==
    /\ hist.cycleEvents # <<>>
    /\ \E p \in DOMAIN hist.cycleStates \cap DOMAIN hist.cycleSnapshot :
          /\ hist.cycleStates[p].mtime # hist.cycleSnapshot[p].mtime
          /\ hist.cycleStates[p].hash = hist.cycleSnapshot[p].hash

\* The canonical serialization of a record's fields without its chain
\* value: the chain field holds the empty string, as in the event that
\* _make_event builds and log serializes.
CanonicalWithoutChain(payload) ==
    json_dumps_sorted([payload EXCEPT !.integrity_chain = ""])

ChainBefore(lines, n) == IF n = 1 THEN "" ELSE lines[n - 1].payload.integrity_chain

\* Record n of the log carries the digest of its predecessor's chain value
\* followed by its own canonical serialization.
ChainedAt(lines, n) ==
    lines[n].payload.integrity_chain =
        sha256(ChainBefore(lines, n) \o CanonicalWithoutChain(lines[n].payload))

\* C2: while the log has been written by one logger started on an absent
\* log, every record n has chain_value[n] = digest(chain_value[n-1] ++
\* canonical(record n without its chain value)), the predecessor of the
\* first record being the empty string.
C2_ChainIntegrity ==
    hist.run = 1 =>
        \A n \in 1..Len(logFile.lines) :
            logFile.lines[n].whole => ChainedAt(logFile.lines, n)

\* One logger has appended two records.
C2_Witness ==
    /\ hist.run = 1
    /\ Len(logFile.lines) >= 2
    /\ \A n \in 1..Len(logFile.lines) : logFile.lines[n].whole

\* C7: a logger constructed over a log whose last record is valid holds
\* that record's chain value, whatever the record's length; over an empty
\* or absent log it holds the empty string.
C7_RecoversLastChain ==
    pc = "init" =>
        IF logFile.lines = <<>>
        THEN last_chain_hash = ""
        ELSE LET last == logFile.lines[Len(logFile.lines)] IN
             last.whole => last_chain_hash = last.payload.integrity_chain

\* C8: once an append to the log or a save of the baseline has failed in a
\* poll cycle, the process has left the loop for good: it is not at any
\* step of run, and the log is as the failure left it.
C8_DurabilityFailureStopsLoop ==
    hist.failed =>
        /\ pc = "crashed"
        /\ Len(logFile.lines) = hist.failedLogLen

\* An append failed in a cycle that had events to log.
C8_Witness ==
    /\ hist.failed
    /\ pc = "crashed"
    /\ hist.cycleEvents # <<>>
    /\ events # <<>>

\* C9: when a termination request has ended the process, the cycle that was
\* in progress is complete: none of its events is left unlogged, and if it
\* had events the Store is its snapshot and is persisted.
C9_StopOnlyAtCycleBoundary ==
    (pc = "stopped" /\ hist.signalPc # "none") =>
        /\ events = <<>>
        /\ hist.cycleEvents # <<>> =>
              /\ states = hist.cycleSnapshot
              /\ baselineFile = save_baseline(hist.cycleSnapshot)

\* C10: after a cycle that produced an event the Store is the cycle's
\* snapshot and the persisted baseline, read back, is the Store; after a
\* cycle that produced none, Store and persisted baseline are as they were
\* when the cycle began.
C10_StoreAndBaselineAfterCycle ==
    pc = "sleep" =>
        IF hist.cycleEvents # <<>>
        THEN /\ states = hist.cycleSnapshot
             /\ baselineFile.exists /\ baselineFile.valid
             /\ load_baseline(baselineFile) = states
        ELSE /\ states = hist.cycleStates
             /\ baselineFile = hist.cycleBaseline

\* A cycle with events has completed and changed the Store.
C10_Witness ==
    /\ pc = "sleep"
    /\ hist.cycleEvents # <<>>
    /\ states # hist.cycleStates
    /\ states = hist.cycleSnapshot

\* C11: in the events of a poll cycle every create has hash_before "-" and
\* hash_after the snapshot's hash of the path, every delete has hash_before
\* the Store's hash of the path and hash_after "-", every modify has
\* hash_before the Store's hash and hash_after the snapshot's hash, and the
\* two differ.
C11_EventHashes ==
    LET S == hist.cycleStates
        C == hist.cycleSnapshot
        E == hist.cycleEvents
    IN \A i \in DOMAIN E :
          LET ev == E[i]
              p == ev.file_path
          IN CASE ev.event_type = "create" ->
                    /\ p \in DOMAIN C
                    /\ ev.hash_before = "-"
                    /\ ev.hash_after = C[p].hash
               [] ev.event_type = "delete" ->
                    /\ p \in DOMAIN S
                    /\ ev.hash_before = S[p].hash
                    /\ ev.hash_after = "-"
               [] ev.event_type = "modify" ->
                    /\ p \in DOMAIN S /\ p \in DOMAIN C
                    /\ ev.hash_before = S[p].hash
                    /\ ev.hash_after = C[p].hash
                    /\ ev.hash_before # ev.hash_after
               [] OTHER -> FALSE

\* One cycle emitted a modify together with a create or a delete.
C11_Witness ==
    /\ \E i \in DOMAIN hist.cycleEvents : hist.cycleEvents[i].event_type = "modify"
    /\ \E i \in DOMAIN hist.cycleEvents :
          hist.cycleEvents[i].event_type \in {"create", "delete"}

\* C14: a logger that has just been constructed over a log whose last line
\* is not the json of a record holds the empty string as its previous chain
\* value, whatever the earlier lines are; the construction has not failed
\* (the process is past __init__).
C14_CorruptTailSeedsEmpty ==
    (pc = "init" /\ logFile.lines # <<>> /\ ~logFile.lines[Len(logFile.lines)].whole)
        => last_chain_hash = ""

\* A logger constructed over a log with a valid record followed by an
\* unfinished line.
C14_Witness ==
    /\ pc = "init"
    /\ Len(logFile.lines) >= 2
    /\ ~logFile.lines[Len(logFile.lines)].whole
    /\ logFile.lines[1].whole
    /\ logFile.lines[1].payload.integrity_chain # ""
    /\ last_chain_hash = ""

\* The step from __init__ to the poll loop (load_or_build_baseline): when
\* the baseline file exists the Store becomes what the file holds and the
\* file is not written; when it does not exist the Store becomes the scan
\* of the directory and is persisted, so that the file read back is the
\* Store.
C15_StartupStep ==
    (pc = "init" /\ pc' = "scan") =>
        IF baselineFile.exists
        THEN /\ states' = load_baseline(baselineFile)
             /\ baselineFile' = baselineFile
        ELSE /\ states' = ScanDirectory
             /\ baselineFile'.exists /\ baselineFile'.valid
             /\ load_baseline(baselineFile') = states'

\* The paths of the create events that a scan step of the poll loop gives.
C15_CreatedNow ==
    {events'[i].file_path : i \in {j \in DOMAIN events' : events'[j].event_type = "create"}}

\* C15: load_or_build_baseline loads the Store from the baseline file when
\* it exists, with no scan-and-persist, and builds and persists it by a full
\* scan when it does not; the first poll cycle after a build gives no create
\* event for a file that was in the directory when the Store was built.
C15_LoadOrBuildBaseline ==
    [][/\ C15_StartupStep
       /\ (pc = "scan" /\ pc' \in {"log", "sleep"}) =>
             C15_CreatedNow \cap hist.builtFrom = {}]_vars

\* C15 as amended: ... no create event for a file that was in the directory
\* and could be read when the Store was built (the files of the Store).
C15_LoadOrBuildBaselineReadable ==
    [][/\ C15_StartupStep
       /\ (pc = "scan" /\ pc' \in {"log", "sleep"}) =>
             C15_CreatedNow \cap DOMAIN states = {}]_vars

\* A second process has loaded a baseline that differs from the directory
\* and has not scanned yet; the first process had built it from a directory
\* with a file in it.
C15_Witness ==
    /\ hist.run = 2
    /\ pc = "scan"
    /\ hist.cycleSnapshot = EmptyMap /\ hist.cycleStates = EmptyMap
    /\ states # EmptyMap
    /\ states = load_baseline(baselineFile)
    /\ states # ScanDirectory
    /\ logFile.lines = <<>>

\* The path-to-hash mapping of a Store.
HashOf(store) == [p \in DOMAIN store |-> store[p].hash]

\* The directory holds the same files with the same contents as when the
\* last scan of this run read it (mtimes and permissions may differ).
SameContents ==
    /\ hist.scanned
    /\ DOMAIN fs = DOMAIN hist.scannedDir
    /\ \A p \in DOMAIN fs : fs[p].content = hist.scannedDir[p].content

\* ... and the same files can be read.
SameReadable ==
    \A p \in DOMAIN fs \cap DOMAIN hist.scannedDir :
        fs[p].readable = hist.scannedDir[p].readable

\* C16: a scan of the poll loop over a directory whose file contents have
\* not changed since the previous scan of the loop gives a snapshot with the
\* same path-to-hash mapping as the previous one, and no event, whatever the
\* previous cycle emitted.
C16_UnchangedDirectoryNoEvents ==
    [][(pc = "scan" /\ pc' \in {"log", "sleep"} /\ SameContents) =>
          /\ HashOf(snapshot') = HashOf(hist.cycleSnapshot)
          /\ events' = <<>>]_vars

\* C16 as amended: ... whose file contents have not changed and whose files
\* can be read as before ...
C16_UnchangedReadableDirectoryNoEvents ==
    [][(pc = "scan" /\ pc' \in {"log", "sleep"} /\ SameContents /\ SameReadable) =>
          /\ HashOf(snapshot') = HashOf(hist.cycleSnapshot)
          /\ events' = <<>>]_vars

\* A cycle that emitted events has been followed by a cycle over the same
\* contents, with the mtime of a file changed in between, and the second
\* cycle emitted none.
C16_Witness ==
    /\ pc = "sleep"
    /\ hist.prevEmitted
    /\ hist.cycleEvents = <<>>
    /\ \E p \in DOMAIN snapshot \cap DOMAIN states : snapshot[p].mtime # states[p].mtime

\* C18: when one process, started on an empty directory and an empty log,
\* has completed the cycle that observed the removal of the file, after
\* cycles that observed its creation and the change of its content, the log
\* holds exactly three records: a create, a modify and a delete of the
\* file, in that order, the hash_before of each being the hash_after of the
\* one before, with three pairwise distinct chain values, each the digest of
\* the previous record's chain value and the record.
C18_ThreeCyclesThreeRecords ==
    (hist.run = 1 /\ hist.fsOps = 3 /\ pc = "sleep") =>
        LET L == logFile.lines
            R(n) == L[n].payload
        IN /\ Len(L) = 3
           /\ \A n \in 1..3 : L[n].whole /\ R(n).file_path = "a" /\ ChainedAt(L, n)
           /\ <<R(1).event_type, R(2).event_type, R(3).event_type>>
                  = <<"create", "modify", "delete">>
           /\ R(1).hash_before = "-"
           /\ R(2).hash_before = R(1).hash_after
           /\ R(3).hash_before = R(2).hash_after
           /\ R(3).hash_after = "-"
           /\ R(1).hash_after # R(2).hash_after
           /\ Cardinality({R(n).integrity_chain : n \in 1..3}) = 3

\* The cycle that observed the removal has completed.
C18_Witness ==
    /\ hist.run = 1
    /\ hist.fsOps = 3
    /\ pc = "sleep"
    /\ fs = EmptyMap
    /\ states = EmptyMap
    /\ Len(logFile.lines) = 3

(***************************************************************************)
(* Tampering with the log (specification TamperSpec): the monitor runs     *)
(* over one file's life as in LifeSpec, and once its last process has      *)
(* ended, someone with write access to the log file rewrites one record or *)
(* removes one that is not the last.  The log is then re-verified from its *)
(* first record: every line must be a record whose chain value is the      *)
(* digest of its predecessor's chain value and its own fields.             *)
(***************************************************************************)
LogVerifies(lines) ==
    \A n \in 1..Len(lines) : lines[n].whole /\ ChainedAt(lines, n)

\* What a record can be rewritten to: a field changed (a hash, the chain
\* value), with the chain value left as it is or replaced by the digest
\* that fits the rewritten fields.
Rewrites(lines, n) ==
    LET r == lines[n].payload
        fields == {[r EXCEPT !.hash_after = "forged"],
                   [r EXCEPT !.integrity_chain = "forged"]}
        refit(e) == [e EXCEPT !.integrity_chain =
                        sha256(ChainBefore(lines, n) \o CanonicalWithoutChain(e))]
    IN (fields \cup {refit(e) : e \in fields}) \ {r}

\* Every log that the monitor can write is the log at the end of some last
\* process.
TamperMayHappen == pc \in Ended /\ hist.run = MaxRuns

TamperEdit ==
    /\ TamperMayHappen
    /\ hist.tamper.kind = "none"
    /\ \E n \in 1..Len(logFile.lines) :
          /\ logFile.lines[n].whole
          /\ \E e \in Rewrites(logFile.lines, n) :
                /\ logFile' = [logFile EXCEPT !.lines[n].payload = e]
                /\ hist' = [hist EXCEPT !.tamper =
                       [kind |-> "edit",
                        intact |-> LogVerifies(logFile.lines),
                        last |-> (n = Len(logFile.lines)),
                        matching |-> ChainedAt(logFile'.lines, n)]]
    /\ UNCHANGED <<cliVars, srvVars>>
    /\ UNCHANGED <<fs, clock, baselineFile, pc, states, snapshot, events,
                   last_chain_hash, nextId>>

TamperRemove ==
    /\ TamperMayHappen
    /\ hist.tamper.kind = "none"
    /\ \E n \in 1..(Len(logFile.lines) - 1) :
          /\ logFile' = [logFile EXCEPT !.lines =
                 SubSeq(@, 1, n - 1) \o SubSeq(@, n + 1, Len(@))]
          /\ hist' = [hist EXCEPT !.tamper =
                 [kind |-> "remove", intact |-> LogVerifies(logFile.lines),
                  last |-> FALSE, matching |-> FALSE]]
    /\ UNCHANGED <<cliVars, srvVars>>
    /\ UNCHANGED <<fs, clock, baselineFile, pc, states, snapshot, events,
                   last_chain_hash, nextId>>

TamperNext ==
    \/ LifeNext
    \/ TamperEdit
    \/ TamperRemove

TamperSpec == LifeInit /\ [][TamperNext]_vars

\* C19: once one record of a log that verified has been rewritten, or one
\* that is not the last removed, the log does not verify: some record's
\* stored chain value is not the digest of its predecessor's chain value
\* and its own fields.
C19_TamperingIsDetected ==
    (hist.tamper.kind # "none" /\ hist.tamper.intact) => ~LogVerifies(logFile.lines)

\* C19 as amended: ... except when the last record is rewritten together
\* with a chain value that fits its rewritten fields.
C19_TamperingIsDetectedBeforeLast ==
    (/\ hist.tamper.kind # "none"
     /\ hist.tamper.intact
     /\ ~(hist.tamper.last /\ hist.tamper.matching))
        => ~LogVerifies(logFile.lines)

\* A record that is not the last of a log of three records, written by two
\* processes, has been rewritten, chain value included.
C19_Witness ==
    /\ hist.tamper.kind = "edit"
    /\ hist.tamper.intact
    /\ hist.tamper.matching
    /\ ~hist.tamper.last
    /\ Len(logFile.lines) = 3
    /\ hist.run = 2

(***************************************************************************)
(* Properties of the delivery client (ClientSpec, FairClientSpec).         *)
(***************************************************************************)
\* C3: under every interleaving and for every configured max_queue_size the
\* queue holds at most max_queue_size payloads.
C3_QueueNeverExceedsMax == Len(queue) <= cfg.max_queue_size

\* C4: every call of enqueue appends its payload, which is then the last of
\* the queue, and takes out at most one payload, the head, and only from a
\* queue that holds max_queue_size payloads: a call on a queue that is not
\* full removes nothing.
C4_EnqueueDropsOldestOnlyWhenFull ==
    LET e == chist.lastEnq IN
    /\ e.inserted
    /\ e.last
    /\ Len(e.removed) <= 1
    /\ e.removed # <<>> => e.lenAtGet = cfg.max_queue_size

SenderStopped == thr["sender"].top \in {"done", "dead"}

\* The sender keeps running: the process is alive, stop has not been
\* signaled and no exception has ended the sender.
SenderKeepsRunning == ProcessAlive /\ ~stop_event /\ ~SenderStopped

\* C5: a payload of a batch whose POST by the sender failed is sent again
\* in a later POST, as long as the sender keeps running (the collector
\* fails at most MaxFailures POSTs, so later POSTs succeed).
C5_FailedBatchIsResent ==
    \A p \in 1..MaxPayloads :
        (p \in chist.failedPending) ~>
            (p \notin chist.failedPending \/ ~SenderKeepsRunning)

\* C5 as amended: ... unless an enqueue has evicted the payload from the
\* queue in the meantime.
C5_FailedBatchIsResentUnlessEvicted ==
    \A p \in 1..MaxPayloads :
        (p \in chist.failedPending) ~>
            (p \notin chist.failedPending \/ p \in chist.lost \/ ~SenderKeepsRunning)

\* A payload has been POSTed twice by the sender: in a POST that failed and
\* in a later one that succeeded.
C5_Witness ==
    \E i, j \in DOMAIN posts :
        /\ i < j
        /\ posts[i].by = "sender" /\ posts[i].status # "2xx"
        /\ posts[j].by = "sender" /\ posts[j].status = "2xx"
        /\ Range(posts[i].batch) \subseteq Range(posts[j].batch)
        /\ Len(posts[i].batch) = 2

\* C6: a _flush whose POST failed has called enqueue once for each payload
\* of its batch, in the batch's order, and no exception has left it; a
\* _flush whose POST gave a 2xx status has called enqueue for none.
C6_FailedBatchRequeuedOnce ==
    LET f == chist.lastFlush IN
    /\ f.status \in {"non2xx", "error"} => f.calls = f.batch /\ ~f.escaped
    /\ f.status = "2xx" => f.calls = <<>>

\* One step of the client seen from a _flush of thread t: what it takes out
\* of the queue and what it sends.
C12_FlushStep(t) ==
    LET c == thr[t]
        d == thr'[t]
    IN \* the batch grows by the head of the queue, up to batch_size
       /\ (c.fl = "deq" /\ d.fl = "deq" /\ d.batch # c.batch) =>
             /\ queue # <<>>
             /\ d.batch = Append(c.batch, Head(queue))
             /\ queue' = Tail(queue)
             /\ Len(d.batch) <= cfg.batch_size
       \* the draining ends with min(batch_size, payloads found) payloads
       /\ (c.fl = "deq" /\ d.fl # "deq") =>
             /\ Len(c.batch) = Min(cfg.batch_size, Len(c.batch) + Len(queue))
             /\ queue' = queue
             /\ posts' = posts
             /\ c.batch = <<>> <=> d.fl # "post"
             /\ d.fl = "post" => d.batch = c.batch
       \* a batch is sent in one request, its body the object or the array
       /\ (c.fl = "post" /\ d.fl # "post") =>
             /\ Len(posts') = Len(posts) + 1
             /\ LET r == posts'[Len(posts')] IN
                /\ r.by = t
                /\ r.batch = c.batch
                /\ r.batch # <<>>
                /\ r.body = IF Len(r.batch) = 1 THEN [object |-> r.batch[1]]
                                                ELSE [array |-> r.batch]
                /\ \A i \in DOMAIN posts : posts'[i] = posts[i]

\* C12: each _flush takes min(batch_size, payloads it finds in the queue)
\* payloads from the head of the queue, in the queue's order, and sends them
\* in exactly one POST, whose body is the payload itself for a batch of one
\* and the array of the payloads for a larger batch; a _flush that finds the
\* queue empty issues no request, and nothing else issues one.
C12_FlushSendsOneBatch ==
    [][/\ \A t \in Threads : C12_FlushStep(t)
       /\ posts' # posts => \E t \in Threads : thr[t].fl = "post"]_vars

\* A batch of one payload and a batch of two have been sent, and a _flush
\* has found the queue empty.
C12_Witness ==
    /\ \E i \in DOMAIN posts : Len(posts[i].batch) = 1
    /\ \E i \in DOMAIN posts : Len(posts[i].batch) = 2
    /\ thr["sender"].top = "wait"
    /\ queue = <<>>

\* C13: once stop is signaled the sender leaves its wait, makes its last
\* _flush and returns from _run: it is "done", which it can only be after
\* that last _flush, and it makes no step afterwards.  A sender that has
\* ended after stop was signaled has ended that way, and the sender always
\* ends; the one other way out is the end of the process while the sender
\* is still running (join timed out and main returned).  A sender that an
\* exception has ended ("dead") has not made its way to the end of _run.
C13_SenderExitsAfterFinalFlush ==
    /\ []((stop_event /\ SenderStopped) => thr["sender"].top = "done")
    /\ stop_event ~> \/ thr["sender"].top = "done"
                     \/ ~ProcessAlive /\ thr["sender"].top # "dead"

\* C20: every POST is issued by the sender thread, and the thread that
\* calls start, enqueue and stop (the thread of the poll loop) is never at a
\* POST; there is one sender thread.
C20_OnlySenderPosts ==
    /\ \A i \in DOMAIN posts : posts[i].by = "sender"
    /\ thr["main"].fl # "post"
    /\ Threads \ {"main"} = {"sender"}

\* C21: a call of enqueue, by the producer or by the sender's re-enqueue,
\* under every interleaving of the two threads, has returned normally with
\* its payload inserted: no queue.Full and no queue.Empty has left it.
C21_EnqueueAlwaysInserts ==
    /\ chist.lastEnq.inserted
    /\ thr["main"].top # "crashed"
    /\ thr["sender"].top # "dead"

\* ------------------------------------------------------------------
\* The query server (src/server.py): one GET over a log file.
\* ------------------------------------------------------------------

\* Longest log the server reads.
MaxServerLog == 5

\* Defaults and limits of the limit parameter.
DefaultLimit == 100
LowestLimit == 1
HighestLimit == 500

\* The instants at which records were emitted: seconds and microseconds of
\* one minute; the date, hour and minute are the same for all of them.
Instants == [sec : {0, 1}, us : {0, 500000}]
Earlier(i, j) == i.sec < j.sec \/ (i.sec = j.sec /\ i.us < j.us)

\* Character codes of the text of a timestamp.
Digit(d) == 48 + d
Plus == 43
Dot == 46
Colon == 58

\* datetime.isoformat() from the seconds on: "SS+00:00" when the microseconds
\* are zero, "SS.ffffff+00:00" otherwise.
isoformat(i) ==
    <<Digit(i.sec \div 10), Digit(i.sec % 10)>>
    \o (IF i.us = 0 THEN <<>>
        ELSE <<Dot, Digit(i.us \div 100000), Digit((i.us \div 10000) % 10),
               Digit((i.us \div 1000) % 10), Digit((i.us \div 100) % 10),
               Digit((i.us \div 10) % 10), Digit(i.us % 10)>>)
    \o <<Plus, Digit(0), Digit(0), Colon, Digit(0), Digit(0)>>

\* Python's order on strings: by the first character that differs, a proper
\* prefix first.
RECURSIVE StrLess(_, _)
StrLess(a, b) ==
    IF b = <<>> THEN FALSE
    ELSE IF a = <<>> THEN TRUE
    ELSE IF Head(a) # Head(b) THEN Head(a) < Head(b)
    ELSE StrLess(Tail(a), Tail(b))

\* A line of the log as the server sees it: a JSON object, or text that
\* json.loads rejects.
ServerRecord(id, i) ==
    [payload |-> [event_id |-> id, timestamp |-> isoformat(i)], whole |-> TRUE]
BadLine == [payload |-> [event_id |-> 0, timestamp |-> <<>>], whole |-> FALSE]
ServerLogs ==
    UNION {{[k \in 1..n |-> ServerRecord(k, f[k])] : f \in [1..n -> Instants]}
           : n \in 0..MaxServerLog}

\* list.sort(key=timestamp): stable, ascending in the order of strings.
MutSortKeepsLogOrder(sorted, e) == Append(sorted, e)
SortInsert(sorted, e) ==
    LET k == Cardinality({j \in DOMAIN sorted :
                            ~StrLess(e.timestamp, sorted[j].timestamp)})
    IN  SubSeq(sorted, 1, k) \o <<e>> \o SubSeq(sorted, k + 1, Len(sorted))
RECURSIVE sort_by_timestamp(_)
sort_by_timestamp(evts) ==
    IF evts = <<>> THEN <<>>
    ELSE SortInsert(sort_by_timestamp(SubSeq(evts, 1, Len(evts) - 1)),
                    evts[Len(evts)])

\* events[-limit:] for a positive limit.
MutLastFirst(evts, limit) == SubSeq(evts, 1, Min(limit, Len(evts)))
Last(evts, limit) == SubSeq(evts, Max(1, Len(evts) - limit + 1), Len(evts))

\* load_events: a missing file gives no events; every line is parsed, and a
\* line that is no JSON raises.
Parses(file) == \A k \in DOMAIN file.lines : file.lines[k].whole
load_events(file, limit) ==
    IF ~file.exists THEN <<>>
    ELSE Last(sort_by_timestamp([k \in DOMAIN file.lines |->
                                   file.lines[k].payload]), limit)

\* The texts of the limit parameter that are requested, and int() on them.
LimitNumbers == {-1, 0, 1, 2, 500, 501}
LimitTexts == {ToString(n) : n \in LimitNumbers} \cup {"", "abc", "2.5"}
IntTexts == LimitNumbers \cup {DefaultLimit}
ValueError(text) == \A n \in IntTexts : ToString(n) # text
int(text) == CHOOSE n \in IntTexts : ToString(n) = text

\* parse_qs drops a parameter whose value is blank; params.get with the
\* default ["100"], then [0].
Queries == {<<>>} \cup {<<t>> : t \in LimitTexts}
limit_param(query) ==
    IF query = <<>> \/ query[1] = "" THEN ToString(DefaultLimit) ELSE query[1]

\* The limit do_GET passes to load_events.
MutLimitUnclamped(query) ==
    IF ValueError(limit_param(query)) THEN DefaultLimit
    ELSE int(limit_param(query))
request_limit(query) ==
    LET text == limit_param(query)
        limit == IF ValueError(text) THEN DefaultLimit ELSE int(text)
    IN  Max(LowestLimit, Min(limit, HighestLimit))

ServerPaths == {"/events", "/status"}

\* A request arrives over some log.
ServerInit ==
    /\ fs = EmptyMap
    /\ clock = 0
    /\ baselineFile = NoBaseline
    /\ \/ logFile = NoLog
       \/ \E lines \in ServerLogs, bad \in BOOLEAN :
            logFile = [exists |-> TRUE,
                       lines |-> IF bad THEN Append(lines, BadLine) ELSE lines]
    /\ pc = "off"
    /\ states = EmptyMap
    /\ snapshot = EmptyMap
    /\ events = <<>>
    /\ last_chain_hash = ""
    /\ nextId = 1
    /\ hist = NoHist
    /\ CliIdle
    /\ \E path \in ServerPaths, query \in Queries :
         http = [NoHttp EXCEPT !.phase = "request", !.path = path,
                               !.query = query]
    /\ boot = NoBoot

\* do_GET, a path other than /events.
GetNotFound ==
    /\ http.phase = "request"
    /\ http.path # "/events"
    /\ http' = [http EXCEPT !.phase = "responded", !.status = 404,
                            !.body = [error |-> "not found"]]
    /\ UNCHANGED <<monVars, cliVars, boot>>

\* do_GET of /events over a log all of whose lines parse.
GetEvents ==
    /\ http.phase = "request"
    /\ http.path = "/events"
    /\ Parses(logFile)
    /\ LET limit == request_limit(http.query)
       IN  http' = [http EXCEPT !.phase = "responded", !.limit = limit,
                                !.status = 200,
                                !.body = [events |-> load_events(logFile, limit)]]
    /\ UNCHANGED <<monVars, cliVars, boot>>

\* do_GET of /events over a log with a line that is no JSON: json.loads raises
\* in load_events and the handler writes no response.
GetEventsRaises ==
    /\ http.phase = "request"
    /\ http.path = "/events"
    /\ ~Parses(logFile)
    /\ http' = [http EXCEPT !.phase = "raised",
                            !.limit = request_limit(http.query)]
    /\ UNCHANGED <<monVars, cliVars, boot>>

ServerNext == GetNotFound \/ GetEvents \/ GetEventsRaises
ServerSpec == ServerInit /\ [][ServerNext]_vars

\* The limit the interface promises for a query.
PromisedLimit(query) ==
    IF query = <<>> THEN DefaultLimit
    ELSE IF \E n \in LimitNumbers : ToString(n) = query[1]
         THEN LET n == CHOOSE m \in LimitNumbers : ToString(m) = query[1]
              IN  IF n < LowestLimit THEN LowestLimit
                  ELSE IF n > HighestLimit THEN HighestLimit ELSE n
         ELSE DefaultLimit
InstantOf(e) == CHOOSE i \in Instants : isoformat(i) = e.timestamp
Answered == http.phase = "responded" /\ http.path = "/events"

\* C22: the response of GET /events over a log of records holds the records
\* in ascending order of their instants, as many as the limit allows (the
\* parameter clamped to [1,500], 100 when it is absent or no integer), and no
\* record left out is later than a record returned; a request for any other
\* path is answered 404 with a JSON error body; the handler raises only
\* over a log with a line that is no JSON.
C22_QueryReturnsLastSorted ==
    /\ Answered =>
         LET out == http.body.events
             recs == {logFile.lines[k].payload : k \in DOMAIN logFile.lines}
             L == PromisedLimit(http.query)
         IN  /\ http.status = 200
             /\ http.limit = L
             /\ Len(out) = Min(L, Len(logFile.lines))
             /\ Range(out) \subseteq recs
             /\ Cardinality(Range(out)) = Len(out)
             /\ \A a, b \in DOMAIN out :
                  a < b => ~Earlier(InstantOf(out[b]), InstantOf(out[a]))
             /\ \A r \in recs \ Range(out), o \in Range(out) :
                  ~Earlier(InstantOf(o), InstantOf(r))
    /\ (http.phase = "responded" /\ http.path # "/events") =>
         /\ http.status = 404
         /\ DOMAIN http.body = {"error"}
    /\ http.phase = "raised" => ~Parses(logFile)

\* A five-record log whose records are not in the order of their instants,
\* asked with limit=2.
C22_Witness ==
    /\ Answered
    /\ Len(logFile.lines) = 5
    /\ http.query = <<"2">>
    /\ Len(http.body.events) = 2
    /\ \E k \in 1..4 : Earlier(InstantOf(logFile.lines[k + 1].payload),
                               InstantOf(logFile.lines[k].payload))

\* C23: a scan of the poll loop over a directory with a file that cannot be
\* read goes on to logging or to the sleep, never to a crash; the file is not
\* in the snapshot; when its path is in the Store the events of the cycle
\* hold exactly one event for it, a delete, and when it is not they hold
\* none.
EventsFor(evts, p) == {k \in DOMAIN evts : evts[k].file_path = p}
C23_ScanStep ==
    (pc = "scan" /\ pc' \notin {"scan", "stopped"}) =>
        /\ pc' \in {"log", "sleep"}
        /\ \A p \in {q \in DOMAIN fs : ~fs[q].readable} :
             /\ p \notin DOMAIN snapshot'
             /\ IF p \in DOMAIN states
                THEN /\ Cardinality(EventsFor(events', p)) = 1
                     /\ \A k \in EventsFor(events', p) :
                          events'[k].event_type = "delete"
                ELSE EventsFor(events', p) = {}
C23_UnreadableFileLeftOut == [][C23_ScanStep]_vars

\* A scan has found a file of the Store unreadable and has reported it
\* deleted.
C23_Witness ==
    /\ pc = "log"
    /\ hist.scanned
    /\ \E p \in DOMAIN hist.scannedDir \cap DOMAIN hist.cycleStates :
         /\ ~hist.scannedDir[p].readable
         /\ p \notin DOMAIN snapshot
         /\ EventsFor(events, p) # {}

\* ------------------------------------------------------------------
\* The agent's entry point (src/fim_agent/main.py): main, load_config.
\* ------------------------------------------------------------------

\* The defaults of load_config.
DefaultBatchSize == 50
DefaultMaxQueueSize == 10000
DefaultSendInterval == 5

\* The field of AgentConfig that has no default in the dataclass.
RequiredFields == {"hackstone_base_url"}
TextFields == {"hackstone_base_url", "ingest_path", "agent_id"}
NumberFields == {"batch_size", "send_interval_seconds", "max_queue_size"}

\* What the config file can be: missing, no JSON, a JSON value that is no
\* object, or an object with some of the fields; a number field holds a
\* number or a text that int() rejects.
NotANumber == "abc"
ConfigObjects ==
    UNION {[present -> {"ok", "bad"}] : present \in SUBSET (TextFields \cup NumberFields)}
ConfigFiles ==
    {[kind |-> k, raw |-> <<>>] : k \in {"missing", "garbage", "array"}}
    \cup {[kind |-> "object",
           raw |-> [f \in DOMAIN o |->
                      IF f \in TextFields THEN "text"
                      ELSE IF o[f] = "bad" THEN NotANumber
                      ELSE IF f = "batch_size" THEN "2"
                      ELSE IF f = "max_queue_size" THEN "1" ELSE "5"]]
          : o \in {c \in ConfigObjects : \A f \in DOMAIN c \cap TextFields : c[f] = "ok"}}

\* raw.get(field, default)
Get(raw, field, default) == IF field \in DOMAIN raw THEN raw[field] ELSE default

\* load_config raises: the file is missing (FileNotFoundError), json.load
\* fails, raw is no object (no .get), or int() rejects a number field.
LoadConfigRaises(file) ==
    \/ file.kind # "object"
    \/ \E f \in NumberFields \cap DOMAIN file.raw : file.raw[f] = NotANumber

\* int(raw.get(field, default)): the number the text of the field denotes.
ConfigNumbers == {1, 2, 5}
GetInt(raw, field, default) ==
    IF field \in DOMAIN raw
    THEN CHOOSE n \in ConfigNumbers : ToString(n) = raw[field]
    ELSE default

\* load_config: the AgentConfig, every field with its default.
load_config(file) ==
    [hackstone_base_url |-> Get(file.raw, "hackstone_base_url", "http://localhost:3000"),
     ingest_path |-> Get(file.raw, "ingest_path", "/api/agent/events"),
     agent_id |-> Get(file.raw, "agent_id", "nodename"),
     batch_size |-> GetInt(file.raw, "batch_size", DefaultBatchSize),
     send_interval_seconds |-> GetInt(file.raw, "send_interval_seconds", DefaultSendInterval),
     max_queue_size |-> GetInt(file.raw, "max_queue_size", DefaultMaxQueueSize)]

AgentInit ==
    /\ MonIdle
    /\ http = NoHttp
    /\ \E file \in ConfigFiles : boot = [NoBoot EXCEPT !.phase = "start", !.file = file]
    /\ cfg = [max_queue_size |-> 1, batch_size |-> 1]
    /\ queue = <<>>
    /\ stop_event = FALSE
    /\ thr = [t \in Threads |-> IF t = "main" THEN Thread("idle") ELSE Thread("unstarted")]
    /\ posts = <<>>
    /\ failBudget = 0
    /\ nextPayload = 1
    /\ chist = NoCHist

\* main: load_config raises, except Exception: logging.error, return 1.
MainConfigFails ==
    /\ boot.phase = "start"
    /\ LoadConfigRaises(boot.file)
    /\ boot' = [boot EXCEPT !.phase = "exited", !.reported = TRUE, !.exit = 1]
    /\ thr' = [thr EXCEPT !["main"] = Thread("stopped")]
    /\ UNCHANGED <<cfg, queue, stop_event, posts, failBudget, nextPayload, chist>>
    /\ UNCHANGED <<monVars, http>>

\* main: cfg = load_config(config_path); agent = FIMAgent(cfg), which
\* builds the HackstoneClient.
MainLoadConfig ==
    /\ boot.phase = "start"
    /\ ~LoadConfigRaises(boot.file)
    /\ LET config == load_config(boot.file) IN
         cfg' = HackstoneClientInit(config.max_queue_size, config.batch_size)
    /\ boot' = [boot EXCEPT !.phase = "agent"]
    /\ UNCHANGED <<queue, stop_event, thr, posts, failBudget, nextPayload, chist>>
    /\ UNCHANGED <<monVars, http>>

\* FIMAgent.start: self.client.start() starts the sender thread, then the
\* signal handlers are installed and _run_main_loop is entered.
AgentStart ==
    /\ boot.phase = "agent"
    /\ thr["sender"].top = "unstarted"
    /\ thr' = [thr EXCEPT !["sender"] = Thread("loop")]
    /\ boot' = [boot EXCEPT !.phase = "loop"]
    /\ UNCHANGED <<cfg, queue, stop_event, posts, failBudget, nextPayload, chist>>
    /\ UNCHANGED <<monVars, http>>

AgentNext == MainConfigFails \/ MainLoadConfig \/ AgentStart
AgentSpec == AgentInit /\ [][AgentNext]_vars

\* C24: when the config file is an object that lacks a required field of
\* AgentConfig, main does not get past load_config: it has not built the
\* agent, the sender is not started and the main loop is not entered, and
\* when main has ended it has reported the error and returned 1.
LacksRequired(file) ==
    file.kind = "object" /\ RequiredFields \ DOMAIN file.raw # {}
C24_MissingFieldRejected ==
    LacksRequired(boot.file) =>
        /\ boot.phase \in {"start", "exited"}
        /\ thr["sender"].top = "unstarted"
        /\ boot.phase = "exited" => boot.reported /\ boot.exit = 1

\* C25: the step by which a termination request ends the monitor leaves the
\* baseline file holding the Store that was in memory and the Delivery
\* Client told to stop (stop_event, the flag HackstoneClient.stop sets), and
\* an ended process does nothing more: the log, the baseline file, the
\* Store and the queue stay as they are until a new process is started.
C25_StopStep ==
    /\ (pc \notin Ended /\ pc' = "stopped") =>
          /\ baselineFile' = save_baseline(states)
          /\ stop_event'
    /\ (pc = "stopped" /\ pc' = "stopped") =>
          UNCHANGED <<logFile, baselineFile, states, snapshot, queue>>
C25_StoppingPersistsAndSignals == [][C25_StopStep]_vars

\* The records of the log: its lines that are whole JSON objects.
Records(lines) == SelectSeq(lines, LAMBDA l : l.whole)
\* The place of an event in the order of emission: ids are handed out in
\* the order in which _make_event is called.
EmissionNumber(payload) ==
    CHOOSE n \in 1..nextId : "ev" \o ToString(n) = payload.event_id

\* C26: the records of the log are in the order in which the poll loop
\* emitted their events, within a cycle and across cycles and restarts, and
\* their timestamps do not decrease along the log.
C26_LogInEmissionOrder ==
    LET recs == Records(logFile.lines) IN
    \A i, j \in DOMAIN recs :
        i < j => /\ EmissionNumber(recs[i].payload) < EmissionNumber(recs[j].payload)
                 /\ recs[i].payload.timestamp <= recs[j].payload.timestamp

\* The chain value of the last record of the log, "" when it has none.
LastChain(lines) ==
    LET recs == Records(lines)
    IN  IF recs = <<>> THEN "" ELSE recs[Len(recs)].payload.integrity_chain

\* C27: once a logger has been built, and between its log calls, its
\* last_chain_hash is the chain value of the last record of the log file,
\* the empty string when the log has no record; so a log call whose append
\* fails has left last_chain_hash as it was.
C27_MemoryChainIsLogChain ==
    hist.run > 0 => last_chain_hash = LastChain(logFile.lines)

\* C28: as long as stop has not been signaled the sender thread has not
\* ended, neither by the return of _run nor by an exception that left
\* _flush, whatever the producer enqueues meanwhile and whatever the POSTs
\* answer.
C28_SenderSurvivesUntilStop ==
    ~stop_event => ~SenderStopped

\* ------------------------------------------------------------------
\* stop(flush=True) over a queue that holds payloads (specification
\* DrainSpec): the payloads were enqueued before, every POST succeeds and
\* nothing is enqueued any more.
\* ------------------------------------------------------------------

\* Most payloads in the queue when the run begins.
MaxQueued == 4

DrainInit ==
    /\ MonIdle
    /\ SrvIdle
    /\ cfg \in {HackstoneClientInit(DefaultMaxQueueSize, b) : b \in BatchSizes}
    /\ \E n \in 0..MaxQueued :
         /\ queue = [i \in 1..n |-> i]
         /\ nextPayload = n + 1
    /\ stop_event = FALSE
    /\ thr = [t \in Threads |-> IF t = "main" THEN Thread("idle") ELSE Thread("unstarted")]
    /\ posts = <<>>
    /\ failBudget = 0
    /\ chist = NoCHist

\* HackstoneClient.stop with flush=True.
StopFlush == Stop /\ thr'["main"].top = "stopping"

DrainNext ==
    \/ Start
    \/ StopFlush
    \/ Join
    \/ FlushDequeue("main")
    \/ FlushPostOk("main")
    \/ SenderLoop
    \/ SenderWait
    \/ FlushDequeue("sender")
    \/ FlushPostOk("sender")
DrainSpec == DrainInit /\ [][DrainNext]_vars

\* C29: when stop(flush=True) has returned and the sender has gone through
\* its last flush and left _run, every POST having succeeded and nothing
\* having been enqueued since, the queue is empty and every payload that was
\* queued has been POSTed.
PostedPayloads == UNION {Range(posts[i].batch) : i \in DOMAIN posts}
C29_StopFlushDrainsQueue ==
    (thr["main"].top = "stopped" /\ thr["sender"].top = "done") =>
        /\ queue = <<>>
        /\ PostedPayloads = 1..(nextPayload - 1)

\* C30: over cycles, stops and restarts the log holds at most one record
\* for each change of the directory: every change touches one file and gives
\* one event in the cycle that observes it, and no later cycle, of this
\* process or the next, logs it again; so the log never has more records
\* than the directory has seen changes.
C30_EachChangeLoggedOnce ==
    Len(Records(logFile.lines)) <= hist.fsOps

\* The payloads of the POSTs, in the order in which the requests were made.
RECURSIVE PostedSequence(_)
PostedSequence(ps) ==
    IF ps = <<>> THEN <<>>
    ELSE PostedSequence(SubSeq(ps, 1, Len(ps) - 1)) \o ps[Len(ps)].batch

\* C31: in a run in which every POST so far has succeeded and enqueue has
\* evicted nothing, the payloads of the POSTs, batch after batch in the
\* order of the requests, are the first payloads of the enqueue sequence
\* 1, 2, ... in that order, so none is POSTed twice.
C31_FifoWithoutDuplication ==
    ((\A i \in DOMAIN posts : posts[i].status = "2xx") /\ chist.dropped = {}) =>
        LET sent == PostedSequence(posts)
        IN  sent = [i \in 1..Len(sent) |-> i]

====
